---------------------------- MODULE Spec2Model ----------------------------
(***************************************************************************)
(* Model of sync.py: the expansion of one declarative album query into     *)
(* atomic search queries (config_query_to_search_queries), the paginated   *)
(* search of the photo service (Immich.search) and the reconciliation of   *)
(* album membership (sync_albums).                                         *)
(*                                                                         *)
(* Representation.  A Python dict is a function whose DOMAIN is its key    *)
(* set.  A value of a multi-valued field is [scalar, items]: scalar = TRUE *)
(* is a bare value (a str, or a dict for timespan) held in items[1],       *)
(* scalar = FALSE is a list.  A date string "YYYY-MM-DD" is the tuple      *)
(* <<y, m, d>> of its three numbers, a datetime is [date, secs] with secs  *)
(* the seconds since midnight.                                             *)
(***************************************************************************)
EXTENDS Integers, Sequences, FiniteSets, TLC

\* ------------------------------------------------------------------ bounds
\* Total number of entries in the lists of one filter expression.
MaxItems == 3

\* Number of pages of PageSize items the service may hold for one search.
MaxPages == 2

\* Number of album configs in the config file.
NumConfigs == 2

\* ------------------------------------------------------- Python primitives
None == "None"
NoneDT == [date |-> <<0, 0, 0>>, secs |-> 0]
EmptyDict == <<>>

Pop(d, k) == [x \in (DOMAIN d) \ {k} |-> d[x]]

\* dict.update(e): the keys of e override those of d
Update(d, e) == e @@ d

Truthy(d) == DOMAIN d # {}

\* `if not isinstance(v, list): v = [v]`: a scalar becomes a one-element list
AsList(v) == v.items

RECURSIVE Concat(_)
Concat(ss) == IF ss = <<>> THEN <<>> ELSE Head(ss) \o Concat(Tail(ss))

MapSeq(s, Op(_)) == [i \in 1..Len(s) |-> Op(s[i])]

\* ------------------------------------------------------------ identifiers
Uuids == {"0f0e0d0c-0000-4000-8000-000000000001"}

is_valid_uuid(value) == value \in Uuids

\* people_name_to_id / tag_value_to_id of sync_albums, a snapshot per run
people_mapping == ("Alice" :> "id-alice") @@ ("Bob" :> "id-bob")
tag_mapping == ("beach" :> "id-beach")

Resolve(p_val, mapping) ==
    IF is_valid_uuid(p_val) THEN p_val
    ELSE IF p_val \in DOMAIN mapping THEN mapping[p_val] ELSE None

\* ------------------------------------------------------------- datetimes
IsLeap(y) == (y % 4 = 0) /\ ((y % 100 # 0) \/ (y % 400 = 0))

DaysInMonth(y, m) ==
    IF m = 2 THEN (IF IsLeap(y) THEN 29 ELSE 28)
    ELSE IF m \in {4, 6, 9, 11} THEN 30 ELSE 31

\* datetime.strptime(s, "%Y-%m-%d") raises ValueError on these
ValidDate(s) ==
    /\ s[1] >= 1 /\ s[1] <= 9999
    /\ s[2] >= 1 /\ s[2] <= 12
    /\ s[3] >= 1 /\ s[3] <= DaysInMonth(s[1], s[2])

strptime(s) == [date |-> s, secs |-> 0]

DaysBeforeYear(y) ==
    (y - 1) * 365 + ((y - 1) \div 4) - ((y - 1) \div 100) + ((y - 1) \div 400)

RECURSIVE DaysBeforeMonth(_, _)
DaysBeforeMonth(y, m) ==
    IF m = 1 THEN 0 ELSE DaysBeforeMonth(y, m - 1) + DaysInMonth(y, m - 1)

ToOrdinal(s) == DaysBeforeYear(s[1]) + DaysBeforeMonth(s[1], s[2]) + s[3]

FromOrdinal(n) ==
    LET y == CHOOSE yy \in (n \div 366)..((n \div 365) + 1) :
                 DaysBeforeYear(yy) < n /\ n <= DaysBeforeYear(yy + 1)
        r == n - DaysBeforeYear(y)
        m == CHOOSE mm \in 1..12 :
                 /\ DaysBeforeMonth(y, mm) < r
                 /\ r <= DaysBeforeMonth(y, mm) + DaysInMonth(y, mm)
    IN <<y, m, r - DaysBeforeMonth(y, m)>>

\* datetime + timedelta(hours=h)
AddHours(dt, h) ==
    LET total == dt.secs + h * 3600
    IN [date |-> FromOrdinal(ToOrdinal(dt.date) + (total \div 86400)),
        secs |-> total % 86400]


\* ------------------------------------------- config_query_to_search_queries
NoError == [kind |-> "none", field |-> "", names |-> <<>>]

\* raise ValueError(...): kind and field stand for the message text, names
\* for the list the message interpolates
ValueError(kind, field, names) == [kind |-> kind, field |-> field, names |-> names]

\* Unresolved, stopping at the first name that does not resolve
UnresolvedFirstOnly(values, mapping) ==
    LET Test(v) == Resolve(v, mapping) = None
        all == SelectSeq(values, Test)
    IN IF all = <<>> THEN <<>> ELSE <<Head(all)>>

\* the names of a list of references that do not resolve, in list order
Unresolved(values, mapping) ==
    LET Test(v) == Resolve(v, mapping) = None
    IN SelectSeq(values, Test)

\* the identifiers of the references that do resolve, in list order
ResolvedIds(values, mapping) ==
    LET Test(v) == Resolve(v, mapping) # None
        Id(v) == Resolve(v, mapping)
    IN MapSeq(SelectSeq(values, Test), Id)

\* 'people': AND logic, one person_ids constraint carrying every identifier
HandlePeople(query) ==
    IF "people" \notin DOMAIN query
    THEN [query |-> query, err |-> NoError, and_person_params |-> EmptyDict]
    ELSE LET people_values == AsList(query["people"])
             unresolved_and_names == Unresolved(people_values, people_mapping)
             resolved_and_ids == ResolvedIds(people_values, people_mapping)
         IN [query |-> Pop(query, "people"),
             err |-> IF unresolved_and_names # <<>>
                     THEN ValueError("unresolved", "people", unresolved_and_names)
                     ELSE NoError,
             and_person_params |-> IF resolved_and_ids # <<>>
                                   THEN ("person_ids" :> resolved_and_ids)
                                   ELSE EmptyDict]

\* the conflict test of the 'any_people' block
PeopleConflict(and_person_params) == Truthy(and_person_params)

\* 'any_people': OR logic, one single-identifier constraint per person
HandleAnyPeople(query, and_person_params) ==
    IF "any_people" \notin DOMAIN query
    THEN [query |-> query, err |-> NoError,
          or_people_param_iterations |-> <<EmptyDict>>,
          uses_any_people_logic |-> FALSE]
    ELSE IF PeopleConflict(and_person_params)
    THEN [query |-> query, err |-> ValueError("conflict", "any_people", <<>>),
          or_people_param_iterations |-> <<EmptyDict>>,
          uses_any_people_logic |-> FALSE]
    ELSE LET any_people_values == query["any_people"].items
             unresolved_or_names == Unresolved(any_people_values, people_mapping)
             resolved_or_ids == ResolvedIds(any_people_values, people_mapping)
             Branch(pid) == ("person_ids" :> <<pid>>)
         IN [query |-> Pop(query, "any_people"),
             err |-> IF unresolved_or_names # <<>>
                     THEN ValueError("unresolved", "any_people", unresolved_or_names)
                     ELSE NoError,
             or_people_param_iterations |->
                 IF resolved_or_ids # <<>> THEN MapSeq(resolved_or_ids, Branch)
                 ELSE <<EmptyDict>>,
             uses_any_people_logic |-> resolved_or_ids # <<>>]

\* 'tags': AND logic, written back into the query as tag_ids
HandleTags(query) ==
    IF "tags" \notin DOMAIN query
    THEN [query |-> query, err |-> NoError]
    ELSE LET tags == AsList(query["tags"])
             Id(t) == Resolve(t, tag_mapping)
             tag_ids == MapSeq(tags, Id)
             invalid_tags == Unresolved(tags, tag_mapping)
             q1 == Pop(query, "tags")
         IN IF \E i \in 1..Len(tag_ids) : tag_ids[i] = None
            THEN [query |-> q1, err |-> ValueError("unresolved", "tags", invalid_tags)]
            ELSE [query |-> IF tag_ids # <<>> THEN Update(q1, "tag_ids" :> tag_ids)
                            ELSE q1,
                  err |-> NoError]

\* query.pop("country", [None]) normalised to a list
HandleCountry(query) ==
    [query |-> Pop(query, "country"),
     query_countries |-> IF "country" \in DOMAIN query
                         THEN AsList(query["country"]) ELSE <<None>>]

\* ProcessTimespan without the timedelta(hours=24) on the end date
ProcessTimespanSameDay(q) ==
    [before |-> strptime(q.end), after |-> strptime(q.start)]

\* one {start, end} entry to its half-open datetime range
ProcessTimespan(q) ==
    [before |-> AddHours(strptime(q.end), 24), after |-> strptime(q.start)]

\* the strptime calls of one entry succeed
TimespanParses(q) == ValidDate(q.end) /\ ValidDate(q.start)

DefaultTimespan == [before |-> NoneDT, after |-> NoneDT]

\* HandleTimespan without the default entry for an empty list
HandleTimespanNoDefault(query) ==
    LET query_timespans_config ==
            IF "timespan" \in DOMAIN query THEN AsList(query["timespan"]) ELSE <<>>
        bad == \E i \in 1..Len(query_timespans_config) :
                   ~TimespanParses(query_timespans_config[i])
    IN [query |-> Pop(query, "timespan"),
        err |-> IF bad THEN ValueError("strptime", "timespan", <<>>) ELSE NoError,
        processed_timespans |->
            IF bad THEN <<>> ELSE MapSeq(query_timespans_config, ProcessTimespan)]

\* query.pop("timespan", []) normalised and converted
HandleTimespan(query) ==
    LET query_timespans_config ==
            IF "timespan" \in DOMAIN query THEN AsList(query["timespan"]) ELSE <<>>
        bad == \E i \in 1..Len(query_timespans_config) :
                   ~TimespanParses(query_timespans_config[i])
        processed_timespans == MapSeq(query_timespans_config, ProcessTimespan)
    IN [query |-> Pop(query, "timespan"),
        err |-> IF bad THEN ValueError("strptime", "timespan", <<>>) ELSE NoError,
        processed_timespans |->
            IF bad THEN <<>>
            ELSE IF processed_timespans = <<>> THEN <<DefaultTimespan>>
            ELSE processed_timespans]

\* the body of the product loop: one atomic query
Subquery(country_val, timespan_param, or_person_param, query, uses_any, and_person_params) ==
    LET base == Update(Update("country" :> country_val, timespan_param), query)
        withPeople == IF uses_any THEN Update(base, or_person_param)
                      ELSE IF Truthy(and_person_params)
                           THEN Update(base, and_person_params)
                      ELSE base
        noCountry == IF withPeople["country"] = None
                     THEN Pop(withPeople, "country") ELSE withPeople
        noBefore == IF timespan_param.before = NoneDT /\ "before" \in DOMAIN noCountry
                    THEN Pop(noCountry, "before") ELSE noCountry
    IN IF timespan_param.after = NoneDT /\ "after" \in DOMAIN noBefore
       THEN Pop(noBefore, "after") ELSE noBefore

\* itertools.product(countries, timespans, or_iterations), leftmost slowest
Product(query_countries, processed_timespans, or_iterations, query, uses_any, and_person_params) ==
    LET PerCountry(c) ==
            LET PerTimespan(t) ==
                    LET PerPerson(p) == Subquery(c, t, p, query, uses_any,
                                                 and_person_params)
                    IN MapSeq(or_iterations, PerPerson)
            IN Concat(MapSeq(processed_timespans, PerTimespan))
    IN Concat(MapSeq(query_countries, PerCountry))

\* The generator run to exhaustion, list(config_query_to_search_queries(...)):
\* query is the caller's dict as the run leaves it, err the exception that
\* ended the run (NoError if none), queries the atomic queries yielded.
config_query_to_search_queries(query) ==
    LET p == HandlePeople(query)
    IN IF p.err # NoError THEN [query |-> p.query, err |-> p.err, queries |-> <<>>]
       ELSE
    LET a == HandleAnyPeople(p.query, p.and_person_params)
    IN IF a.err # NoError THEN [query |-> a.query, err |-> a.err, queries |-> <<>>]
       ELSE
    LET t == HandleTags(a.query)
    IN IF t.err # NoError THEN [query |-> t.query, err |-> t.err, queries |-> <<>>]
       ELSE
    LET c == HandleCountry(t.query)
        ts == HandleTimespan(c.query)
    IN IF ts.err # NoError THEN [query |-> ts.query, err |-> ts.err, queries |-> <<>>]
       ELSE [query |-> ts.query, err |-> NoError,
             queries |-> Product(c.query_countries, ts.processed_timespans,
                                 a.or_people_param_iterations, ts.query,
                                 a.uses_any_people_logic, p.and_person_params)]


\* ------------------------------------------------------- Immich.search
PageSize == 250

Min(a, b) == IF a < b THEN a ELSE b

\* what a well-behaved server answers to the request for one page
ServerPage(server_items, page) ==
    SubSeq(server_items, (page - 1) * PageSize + 1,
           Min(page * PageSize, Len(server_items)))

\* The `while True` loop from the request of current_page on.  bad_page is
\* the page whose response is not {"assets": {"items": [...]}} (0: none).
RECURSIVE SearchLoop(_, _, _, _, _)
SearchLoop(server_items, bad_page, current_page, all_assets_items, requested) ==
    LET asked == Append(requested, current_page)
        items_on_this_page == ServerPage(server_items, current_page)
    IN IF current_page = bad_page
       THEN [items |-> all_assets_items, requested |-> asked, warned |-> TRUE]
       ELSE IF items_on_this_page = <<>>
       THEN [items |-> all_assets_items, requested |-> asked, warned |-> FALSE]
       ELSE IF Len(items_on_this_page) < PageSize
       THEN [items |-> all_assets_items \o items_on_this_page,
             requested |-> asked, warned |-> FALSE]
       ELSE SearchLoop(server_items, bad_page, current_page + 1,
                       all_assets_items \o items_on_this_page, asked)

\* Immich.search: items is response["assets"]["items"], requested the page
\* numbers posted, warned whether the warning was printed
ImmichSearch(server_items, bad_page) ==
    SearchLoop(server_items, bad_page, 1, <<>>, <<>>)

\* ------------------------------------------------------ the photo service
\* the assets of the library, with what the search endpoint filters on
Library ==
    << [id |-> "a1", country |-> "DE", taken |-> <<2024, 1, 1>>,
        people |-> {"id-alice"}],
       [id |-> "a2", country |-> "FR", taken |-> <<2024, 2, 28>>,
        people |-> {"id-bob"}],
       [id |-> "a3", country |-> "DE", taken |-> <<2023, 6, 15>>,
        people |-> {"id-alice", "id-bob"}] >>

Assets == {Library[i].id : i \in 1..Len(Library)}

\* dt1 < dt2 on naive datetimes
Earlier(dt1, dt2) ==
    \/ ToOrdinal(dt1.date) < ToOrdinal(dt2.date)
    \/ ToOrdinal(dt1.date) = ToOrdinal(dt2.date) /\ dt1.secs < dt2.secs

\* the conjunctive filter of POST /api/search/metadata
Matches(asset, params) ==
    /\ "country" \in DOMAIN params => asset.country = params["country"]
    /\ "person_ids" \in DOMAIN params =>
           \A i \in 1..Len(params["person_ids"]) :
               params["person_ids"][i] \in asset.people
    /\ "after" \in DOMAIN params =>
           ~Earlier(strptime(asset.taken), params["after"])
    /\ "before" \in DOMAIN params =>
           Earlier(strptime(asset.taken), params["before"])

ServerItems(params) ==
    LET Test(asset) == Matches(asset, params)
        Id(asset) == asset.id
    IN MapSeq(SelectSeq(Library, Test), Id)

\* ------------------------------------------------ the filter expressions
PersonRefs == {"Alice", "Zed", "0f0e0d0c-0000-4000-8000-000000000001"}
TagRefs == {"beach", "nope"}
Countries == {"DE", "FR"}

\* a single day, a range ending on 28 February of a leap year, a range
\* ending on the last day of a year, an inverted range, an end date that
\* does not exist
TimespanEntries ==
    { [start |-> <<2024, 1, 1>>, end |-> <<2024, 1, 1>>],
      [start |-> <<2023, 12, 31>>, end |-> <<2024, 2, 28>>],
      [start |-> <<2023, 2, 28>>, end |-> <<2023, 12, 31>>],
      [start |-> <<2024, 1, 2>>, end |-> <<2024, 1, 1>>],
      [start |-> <<2023, 2, 28>>, end |-> <<2023, 2, 29>>] }

Absent == [present |-> FALSE, v |-> [scalar |-> FALSE, items |-> <<>>]]

\* the values a field can take with n entries drawn from S: a list, and,
\* where the schema allows a bare value, the bare value
FieldChoices(S, n, allowScalar) ==
    { [present |-> TRUE, v |-> [scalar |-> FALSE, items |-> l]] : l \in [1..n -> S] }
    \cup (IF n = 0 THEN {Absent} ELSE {})
    \cup (IF n = 1 /\ allowScalar
          THEN { [present |-> TRUE, v |-> [scalar |-> TRUE, items |-> <<x>>]] : x \in S }
          ELSE {})

Field(k, c) == IF c.present THEN (k :> c.v) ELSE EmptyDict

Expression(pv, av, tv, cv, sv, fav) ==
    Field("people", pv) @@ Field("any_people", av) @@ Field("tags", tv)
    @@ Field("country", cv) @@ Field("timespan", sv)
    @@ (IF fav THEN ("favorite" :> TRUE) ELSE EmptyDict)

\* -------------------------------------------------------- reconciliation
\* album_missing_assets_ids = search_assets_ids - album_assets_ids
Missing(desired, current) == desired \ current

\* Extra with the operands of the difference exchanged
ExtraSwapped(desired, current) == desired \ current

\* album_extra_assets_ids = album_assets_ids - search_assets_ids
Extra(desired, current) == current \ desired

\* ShouldCall without the emptiness test
ShouldCallAlways(ids) == TRUE

\* `if ids:` in front of the delete and the add call
ShouldCall(ids) == ids # {}

\* ------------------------------------------------------------------ state
VARIABLES
    query,          \* the caller's filter expression (config["query"])
    query_in,       \* the expression as it was handed to the first expansion
    outputs,        \* what each expansion so far raised and yielded
    server_items,   \* the items the service holds for the query searched
    bad_page,       \* the page the service answers in an unexpected structure
    search_result,  \* what Immich.search returned (<<>> before the call)
    configs,        \* the config file: a list of {name, query}
    albums,         \* the albums of the service: albums[id] = [albumName, assets]
    run,            \* which run of sync_albums this is
    idx,            \* the position of `for config in configs`
    pc,             \* the statement sync_albums is at
    search_queries_params,
    search_assets_ids,
    album_id,
    album_assets_ids,
    album_missing_assets_ids,
    album_extra_assets_ids,
    calls,          \* the service calls issued for the album being processed
    error           \* the exception that ended the run, if any

expandVars == <<query, query_in, outputs>>
searchVars == <<server_items, search_result>>
syncVars == <<configs, albums, run, idx, pc, search_queries_params,
              search_assets_ids, album_id, album_assets_ids,
              album_missing_assets_ids, album_extra_assets_ids, calls, error>>
vars == <<expandVars, searchVars, bad_page, syncVars>>

ExpandIdle == query = EmptyDict /\ query_in = EmptyDict /\ outputs = <<>>
SearchIdle == server_items = <<>> /\ search_result = <<>>
SyncIdle ==
    /\ configs = <<>> /\ albums = <<>> /\ run = 0 /\ idx = 0 /\ pc = "idle"
    /\ search_queries_params = <<>> /\ search_assets_ids = {}
    /\ album_id = 0 /\ album_assets_ids = {}
    /\ album_missing_assets_ids = {} /\ album_extra_assets_ids = {}
    /\ calls = <<>> /\ error = NoError

\* ------------------------------------------------- expansion, run twice
InitExpand ==
    /\ \E np \in 0..MaxItems : \E pv \in FieldChoices(PersonRefs, np, TRUE) :
       \E na \in 0..(MaxItems - np) : \E av \in FieldChoices(PersonRefs, na, FALSE) :
       \E nt \in 0..(MaxItems - np - na) : \E tv \in FieldChoices(TagRefs, nt, TRUE) :
       \E nc \in 0..(MaxItems - np - na - nt) :
       \E cv \in FieldChoices(Countries, nc, TRUE) :
       \E ns \in 0..(MaxItems - np - na - nt - nc) :
       \E sv \in FieldChoices(TimespanEntries, ns, TRUE) :
       \E fav \in BOOLEAN :
           query_in = Expression(pv, av, tv, cv, sv, fav)
    /\ query = query_in
    /\ outputs = <<>>
    /\ bad_page = 0
    /\ SearchIdle /\ SyncIdle

\* list(config_query_to_search_queries(query, ...)) on the caller's dict
Expand ==
    /\ Len(outputs) < 2
    /\ LET r == config_query_to_search_queries(query)
       IN /\ query' = r.query
          /\ outputs' = Append(outputs, [err |-> r.err, queries |-> r.queries])
    /\ UNCHANGED <<query_in, searchVars, bad_page, syncVars>>

NextExpand == Expand

SpecExpand == InitExpand /\ [][NextExpand]_vars

\* ------------------------------------------------- one paginated search
\* the items the service holds for the query: 1, 2, ..., n
InitSearch ==
    /\ \E n \in 0..(MaxPages * PageSize + 1) : server_items = [i \in 1..n |-> i]
    /\ bad_page \in 0..(MaxPages + 1)
    /\ search_result = <<>>
    /\ ExpandIdle /\ SyncIdle

Search ==
    /\ search_result = <<>>
    /\ search_result' = <<ImmichSearch(server_items, bad_page)>>
    /\ UNCHANGED <<server_items, bad_page, expandVars, syncVars>>

NextSearch == Search

SpecSearch == InitSearch /\ [][NextSearch]_vars

\* ---------------------------------------------------------- sync_albums
Q_all == EmptyDict
Q_DE == "country" :> [scalar |-> TRUE, items |-> <<"DE">>]
Q_any == ("any_people" :> [scalar |-> FALSE, items |-> <<"Alice", "Bob">>])
         @@ ("country" :> [scalar |-> FALSE, items |-> <<"DE", "FR">>])
Q_inverted == "timespan" :> [scalar |-> TRUE, items |->
                  <<[start |-> <<2024, 1, 2>>, end |-> <<2024, 1, 1>>]>>]
Q_unparsable == "timespan" :> [scalar |-> TRUE, items |->
                  <<[start |-> <<2023, 2, 28>>, end |-> <<2023, 2, 29>>]>>]

SyncQueries == {Q_all, Q_DE, Q_any, Q_inverted, Q_unparsable}
AlbumNames == {"A", "B", "C"}

Call(op, album, ids) == [op |-> op, album |-> album, ids |-> ids]

InitSync ==
    /\ configs \in [1..NumConfigs -> [name : AlbumNames, query : SyncQueries]]
    /\ albums \in {<<>>} \cup
           { <<[albumName |-> "A", assets |-> s]>> : s \in SUBSET Assets }
    /\ bad_page \in {0, 1}
    /\ run = 1 /\ idx = 1 /\ pc = "expand"
    /\ search_queries_params = <<>> /\ search_assets_ids = {}
    /\ album_id = 0 /\ album_assets_ids = {}
    /\ album_missing_assets_ids = {} /\ album_extra_assets_ids = {}
    /\ calls = <<>> /\ error = NoError
    /\ ExpandIdle /\ SearchIdle

\* search_queries_params = list(config_query_to_search_queries(...)); an
\* exception leaves sync_albums and ends the run
ExpandConfig ==
    /\ pc = "expand"
    /\ LET r == config_query_to_search_queries(configs[idx].query)
       IN IF r.err # NoError
          THEN /\ pc' = "aborted" /\ error' = r.err
               /\ UNCHANGED search_queries_params
          ELSE /\ pc' = "search" /\ search_queries_params' = r.queries
               /\ UNCHANGED error
    /\ search_assets_ids' = {}
    /\ UNCHANGED <<configs, albums, run, idx, album_id, album_assets_ids, calls,
                   album_missing_assets_ids, album_extra_assets_ids,
                   expandVars, searchVars, bad_page>>

\* the set of the ids of the items of one response
ItemIds(items) == {items[i] : i \in 1..Len(items)}

\* [immich.search(**params) for params in search_queries_params] and the
\* union of the ids of the responses
SearchAll ==
    /\ pc = "search"
    /\ LET Response(params) == ImmichSearch(ServerItems(params), bad_page)
           SearchCall(params) == Call("search", 0, {})
       IN /\ search_assets_ids' =
                 UNION {ItemIds(Response(search_queries_params[i]).items) :
                            i \in 1..Len(search_queries_params)}
          /\ calls' = calls \o MapSeq(search_queries_params, SearchCall)
    /\ pc' = "album"
    /\ UNCHANGED <<configs, albums, run, idx, search_queries_params, album_id,
                   album_assets_ids, album_missing_assets_ids,
                   album_extra_assets_ids, error, expandVars, searchVars, bad_page>>

\* AlbumByName that never finds the album
AlbumByNameNever(listing, album_name) == 0

\* album_names = {album["albumName"]: album for album in albums}: the last
\* album of the listing that bears the name
AlbumByName(listing, album_name) ==
    LET ids == {i \in 1..Len(listing) : listing[i].albumName = album_name}
    IN IF ids = {} THEN 0 ELSE CHOOSE i \in ids : \A j \in ids : j <= i

create_album_if_not_exists ==
    /\ pc = "album"
    /\ LET found == AlbumByName(albums, configs[idx].name)
       IN IF found # 0
          THEN /\ album_id' = found
               /\ calls' = Append(calls, Call("get_albums", 0, {}))
               /\ UNCHANGED albums
          ELSE /\ albums' = Append(albums, [albumName |-> configs[idx].name,
                                            assets |-> {}])
               /\ album_id' = Len(albums) + 1
               /\ calls' = calls \o <<Call("get_albums", 0, {}),
                                      Call("create_album", Len(albums) + 1, {})>>
    /\ pc' = "get_album"
    /\ UNCHANGED <<configs, run, idx, search_queries_params, search_assets_ids,
                   album_assets_ids, album_missing_assets_ids,
                   album_extra_assets_ids, error, expandVars, searchVars, bad_page>>

\* album = immich.get_album(id, with_assets=True) and the two differences
GetAlbumAndPlan ==
    /\ pc = "get_album"
    /\ album_assets_ids' = albums[album_id].assets
    /\ album_missing_assets_ids' = Missing(search_assets_ids, albums[album_id].assets)
    /\ album_extra_assets_ids' = Extra(search_assets_ids, albums[album_id].assets)
    /\ calls' = Append(calls, Call("get_album", album_id, {}))
    /\ pc' = "remove"
    /\ UNCHANGED <<configs, albums, run, idx, search_queries_params,
                   search_assets_ids, album_id, error, expandVars, searchVars,
                   bad_page>>

\* if album_extra_assets_ids: immich.delete_assets_from_album(...)
RemoveExtra ==
    /\ pc = "remove"
    /\ IF ShouldCall(album_extra_assets_ids)
       THEN /\ albums' = [albums EXCEPT ![album_id].assets = @ \ album_extra_assets_ids]
            /\ calls' = Append(calls, Call("delete_assets_from_album", album_id,
                                           album_extra_assets_ids))
       ELSE UNCHANGED <<albums, calls>>
    /\ pc' = "add"
    /\ UNCHANGED <<configs, run, idx, search_queries_params, search_assets_ids,
                   album_id, album_assets_ids, album_missing_assets_ids,
                   album_extra_assets_ids, error, expandVars, searchVars, bad_page>>

\* if album_missing_assets_ids: immich.add_assets_to_album(...)
AddMissing ==
    /\ pc = "add"
    /\ IF ShouldCall(album_missing_assets_ids)
       THEN /\ albums' = [albums EXCEPT ![album_id].assets = @ \cup album_missing_assets_ids]
            /\ calls' = Append(calls, Call("add_assets_to_album", album_id,
                                           album_missing_assets_ids))
       ELSE UNCHANGED <<albums, calls>>
    /\ pc' = "done"
    /\ UNCHANGED <<configs, run, idx, search_queries_params, search_assets_ids,
                   album_id, album_assets_ids, album_missing_assets_ids,
                   album_extra_assets_ids, error, expandVars, searchVars, bad_page>>

\* print("Done") and the next turn of `for config in configs`
NextConfig ==
    /\ pc = "done"
    /\ IF idx < Len(configs)
       THEN idx' = idx + 1 /\ pc' = "expand" /\ calls' = <<>>
       ELSE idx' = idx /\ pc' = "finished" /\ calls' = calls
    /\ UNCHANGED <<configs, albums, run, search_queries_params, search_assets_ids,
                   album_id, album_assets_ids, album_missing_assets_ids,
                   album_extra_assets_ids, error, expandVars, searchVars,
                   bad_page>>

\* sync_albums is run again: the config file is read anew, the service and
\* the file are as the first run left them
SecondRun ==
    /\ pc \in {"finished", "aborted"}
    /\ run = 1
    /\ run' = 2 /\ idx' = 1 /\ pc' = "expand"
    /\ search_queries_params' = <<>> /\ search_assets_ids' = {}
    /\ album_id' = 0 /\ album_assets_ids' = {}
    /\ album_missing_assets_ids' = {} /\ album_extra_assets_ids' = {}
    /\ calls' = <<>> /\ error' = NoError
    /\ UNCHANGED <<configs, albums, expandVars, searchVars, bad_page>>

NextSync ==
    \/ ExpandConfig
    \/ SearchAll
    \/ create_album_if_not_exists
    \/ GetAlbumAndPlan
    \/ RemoveExtra
    \/ AddMissing
    \/ NextConfig
    \/ SecondRun

SpecSync == InitSync /\ [][NextSync]_vars


\* ============================================================ properties
\* ------------------------------------------ on SpecExpand (first expansion)
Done1 == Len(outputs) >= 1
Out1 == outputs[1]

Has(f) == f \in DOMAIN query_in
Items(f) == query_in[f].items

KnownRefs(f) ==
    IF f = "tags" THEN Uuids \cup DOMAIN tag_mapping
    ELSE Uuids \cup DOMAIN people_mapping

\* the entries of list f that are neither a UUID nor a key of the mapping
UnresolvedOf(f) ==
    LET Test(v) == v \notin KnownRefs(f)
    IN SelectSeq(Items(f), Test)

HasUnresolved(f) == Has(f) /\ UnresolvedOf(f) # <<>>

CountryCount == IF Has("country") THEN Len(Items("country")) ELSE 1
TimespanCount == IF Has("timespan") THEN Len(Items("timespan")) ELSE 1
TimespanCountOrOne ==
    IF Has("timespan") /\ Items("timespan") # <<>> THEN Len(Items("timespan")) ELSE 1
PersonBranches ==
    IF Has("any_people") /\ Items("any_people") # <<>>
    THEN Cardinality({i \in 1..Len(Items("any_people")) :
                          Items("any_people")[i] \in KnownRefs("any_people")})
    ELSE 1

\* C3 as stated: an expansion without error yields c * t * p atomic queries,
\* t being the number of timespan entries, 1 when timespan is absent.
C3_CountAsStated ==
    (Done1 /\ Out1.err = NoError) =>
        Len(Out1.queries) = CountryCount * TimespanCount * PersonBranches

\* C3 amended: an expansion without error yields c * t * p atomic queries,
\* t being the number of timespan entries, 1 when timespan is absent or is
\* an empty list.
C3_Count ==
    (Done1 /\ Out1.err = NoError) =>
        Len(Out1.queries) = CountryCount * TimespanCountOrOne * PersonBranches

C3_Witness ==
    /\ Done1 /\ Out1.err = NoError
    /\ Has("timespan") /\ Items("timespan") = <<>>
    /\ CountryCount = 2 /\ Len(Out1.queries) = 2

\* C4: an expression holding both the people and the any_people key fails
\* with the configuration conflict, whatever the values, and yields nothing.
C4_ConflictAlways ==
    (Done1 /\ Has("people") /\ Has("any_people")) =>
        (Out1.err.kind = "conflict" /\ Out1.queries = <<>>)

NextDay(s) ==
    IF s[3] < DaysInMonth(s[1], s[2]) THEN <<s[1], s[2], s[3] + 1>>
    ELSE IF s[2] < 12 THEN <<s[1], s[2] + 1, 1>>
    ELSE <<s[1] + 1, 1, 1>>

Midnight(s) == [date |-> s, secs |-> 0]

ExpectedRange(e) == [after |-> Midnight(e.start), before |-> Midnight(NextDay(e.end))]

\* C6: every atomic query carries the range of a timespan entry, after =
\* start at 00:00:00 and before = the day after end at 00:00:00, every entry
\* is carried by some query; without timespan no query has before or after.
C6_Ranges ==
    (Done1 /\ Out1.err = NoError) =>
        LET qs == Out1.queries
            entries == IF Has("timespan") THEN Items("timespan") ELSE <<>>
            expected == {ExpectedRange(entries[i]) : i \in 1..Len(entries)}
        IN IF entries = <<>>
           THEN \A i \in 1..Len(qs) :
                    "before" \notin DOMAIN qs[i] /\ "after" \notin DOMAIN qs[i]
           ELSE /\ \A i \in 1..Len(qs) :
                    /\ {"before", "after"} \subseteq DOMAIN qs[i]
                    /\ [after |-> qs[i]["after"], before |-> qs[i]["before"]]
                           \in expected
                /\ qs # <<>> =>
                     \A r \in expected : \E i \in 1..Len(qs) :
                         qs[i]["after"] = r.after /\ qs[i]["before"] = r.before

C6_Witness ==
    /\ Done1 /\ Out1.err = NoError
    /\ Has("timespan") /\ Len(Items("timespan")) = 2
    /\ \E i \in 1..Len(Out1.queries) :
           /\ "before" \in DOMAIN Out1.queries[i]
           /\ Out1.queries[i]["before"] = Midnight(<<2024, 2, 29>>)
           /\ Out1.queries[i]["after"] = Midnight(<<2023, 12, 31>>)
    /\ \E i \in 1..Len(Out1.queries) :
           /\ "before" \in DOMAIN Out1.queries[i]
           /\ Out1.queries[i]["before"] = Midnight(<<2024, 1, 2>>)
           /\ Out1.queries[i]["after"] = Midnight(<<2024, 1, 1>>)

\* C8: an expansion leaves the caller's expression as it was, and a second
\* expansion of it yields what the first one did.
C8_NoMutation ==
    /\ Done1 => query = query_in
    /\ Len(outputs) = 2 => outputs[2] = outputs[1]

\* --------------------------------------------------------- on SpecSearch
\* C10: the search asks for the pages 1, 2, ... in order and returns every
\* item the service holds for the query.
C10_FullList ==
    search_result # <<>> =>
        /\ search_result[1].items = server_items
        /\ search_result[1].requested = [i \in 1..Len(search_result[1].requested) |-> i]

\* ----------------------------------------------------------- on SpecSync
Planned == pc \in {"remove", "add", "done", "finished"}
Applied == pc \in {"done", "finished"}

\* C1: to_add = desired - current, to_remove = current - desired, to_add is
\* disjoint from current and to_remove from desired, and once the calls are
\* applied the album holds exactly the desired assets.
C1_Plan ==
    Planned =>
        LET desired == search_assets_ids
            current == album_assets_ids
            to_add == album_missing_assets_ids
            to_remove == album_extra_assets_ids
        IN /\ to_add = {a \in Assets : a \in desired /\ a \notin current}
           /\ to_remove = {a \in Assets : a \in current /\ a \notin desired}
           /\ to_add \cap current = {}
           /\ to_remove \cap desired = {}
           /\ (current \ to_remove) \cup to_add = desired
           /\ (desired = {} => to_remove = current)
           /\ (current = {} => to_add = desired)
           /\ Applied => albums[album_id].assets = desired

C1_Witness ==
    /\ pc = "done"
    /\ album_missing_assets_ids # {} /\ album_extra_assets_ids # {}
    /\ albums[album_id].assets = search_assets_ids
    /\ album_assets_ids # search_assets_ids

CallsOf(op) == {i \in 1..Len(calls) : calls[i].op = op}
Membership == CallsOf("delete_assets_from_album") \cup CallsOf("add_assets_to_album")

DistinctNames ==
    \A i, j \in 1..Len(configs) : configs[i].name = configs[j].name => i = j

SecondRunIdle ==
    run = 2 =>
        /\ Membership = {} /\ CallsOf("create_album") = {}
        /\ Planned => (album_missing_assets_ids = {} /\ album_extra_assets_ids = {})

\* C2 as stated: in the second of two runs the plan of every album config
\* is empty and no add, remove or create-album call is issued.
C2_IdempotentAsStated == SecondRunIdle

\* C2 amended: the same, for a config file whose album names are pairwise
\* distinct.
C2_Idempotent == DistinctNames => SecondRunIdle

C2_Witness ==
    /\ run = 2 /\ pc = "finished" /\ DistinctNames
    /\ Len(albums) = 2
    /\ \A i \in 1..Len(albums) : albums[i].assets # {}
    /\ albums[1].assets # albums[2].assets
    /\ Len(calls) > 2

\* C7: the removal call is issued iff to_remove is not empty, the addition
\* call iff to_add is not empty, each at most once and with every identifier
\* of its side, after the searches and the fetch of the album and the
\* removal before the addition.
C7_Calls ==
    /\ pc \in {"expand", "search", "album", "get_album", "remove"} => Membership = {}
    /\ pc = "add" => CallsOf("add_assets_to_album") = {}
    /\ Applied =>
         LET dels == CallsOf("delete_assets_from_album")
             adds == CallsOf("add_assets_to_album")
         IN /\ Cardinality(dels) = (IF album_extra_assets_ids # {} THEN 1 ELSE 0)
            /\ Cardinality(adds) = (IF album_missing_assets_ids # {} THEN 1 ELSE 0)
            /\ \A i \in dels : /\ calls[i].ids = album_extra_assets_ids
                               /\ calls[i].album = album_id
            /\ \A i \in adds : /\ calls[i].ids = album_missing_assets_ids
                               /\ calls[i].album = album_id
            /\ \A i \in dels : \A j \in adds : i < j
            /\ \A i \in (1..Len(calls)) \ Membership : \A j \in Membership : i < j
            /\ CallsOf("get_album") # {}

C7_Witness ==
    /\ pc = "done"
    /\ CallsOf("search") # {}
    /\ CallsOf("delete_assets_from_album") # {}
    /\ CallsOf("add_assets_to_album") # {}

DateLater(a, b) ==
    \/ a[1] > b[1]
    \/ a[1] = b[1] /\ a[2] > b[2]
    \/ a[1] = b[1] /\ a[2] = b[2] /\ a[3] > b[3]

\* an entry that does not parse, or whose start is later than its end
MalformedEntry(e) ==
    ~ValidDate(e.start) \/ ~ValidDate(e.end) \/ DateLater(e.start, e.end)

MalformedTimespan(q) ==
    /\ "timespan" \in DOMAIN q
    /\ \E i \in 1..Len(q["timespan"].items) : MalformedEntry(q["timespan"].items[i])

\* C9: a config whose timespan is malformed, an inverted range included,
\* ends in the malformed-timespan error with no call issued for its album.
C9_MalformedAborts ==
    (pc \notin {"idle", "expand"} /\ MalformedTimespan(configs[idx].query)) =>
        (pc = "aborted" /\ error.kind = "strptime" /\ calls = <<>>)

=============================================================================
